---------------------------- MODULE Spec2Model ----------------------------
(***************************************************************************)
(* A model of env_archaeologist.py: the scan of a directory tree for       *)
(* references to environment variables, and the report it prints.          *)
(*                                                                         *)
(* Text is a sequence of one-character strings.  A file's content is a     *)
(* sequence of bytes: the ASCII characters, and xFF, a byte that is valid  *)
(* nowhere in UTF-8.                                                       *)
(***************************************************************************)
EXTENDS Integers, Sequences, FiniteSets, TLC

\* ------------------------------------------------------------------ text

\* The grave accent, code point 96, which the lexer of this notation does not
\* accept inside a string.
Grave == "grave"

\* The printable ASCII characters in code-point order, from 32 (space).
ASCII ==
  << " ", "!", "\"", "#", "$", "%", "&", "'", "(", ")", "*", "+", ",", "-", ".", "/",
     "0", "1", "2", "3", "4", "5", "6", "7", "8", "9", ":", ";", "<", "=", ">", "?",
     "@", "A", "B", "C", "D", "E", "F", "G", "H", "I", "J", "K", "L", "M", "N", "O",
     "P", "Q", "R", "S", "T", "U", "V", "W", "X", "Y", "Z", "[", "\\", "]", "^", "_",
     Grave, "a", "b", "c", "d", "e", "f", "g", "h", "i", "j", "k", "l", "m", "n", "o",
     "p", "q", "r", "s", "t", "u", "v", "w", "x", "y", "z", "{", "|", "}", "~" >>

\* The byte 0xFF: no UTF-8 sequence holds it.
xFF == "\\xff"

\* The newline character.
NL == "\n"

Bytes == {ASCII[i] : i \in 1..Len(ASCII)} \cup {NL, xFF}

\* ord(c): the code point of a character, the value of a byte.
OrdTable ==
  [c \in Bytes |->
     IF c = xFF THEN 255
     ELSE IF c = NL THEN 10
     ELSE 31 + (CHOOSE i \in 1..Len(ASCII) : ASCII[i] = c)]

Ord(c) == OrdTable[c]

\* chr(n) for a printable ASCII code point.
Chr(n) == ASCII[n - 31]

\* str.lower() of one character, as re.IGNORECASE folds ASCII letters.
Lower(c) == IF Ord(c) \in 65..90 THEN Chr(Ord(c) + 32) ELSE c

\* a < b for str: lexicographic by code point, a proper prefix first.
RECURSIVE StrLess(_, _)
StrLess(a, b) ==
  IF b = <<>> THEN FALSE
  ELSE IF a = <<>> THEN TRUE
  ELSE IF Ord(Head(a)) # Ord(Head(b)) THEN Ord(Head(a)) < Ord(Head(b))
  ELSE StrLess(Tail(a), Tail(b))

\* sub in s, for str.
Contains(s, sub) ==
  \E i \in 1..(Len(s) - Len(sub) + 1) : SubSeq(s, i, i + Len(sub) - 1) = sub

\* The elements of a list, as a set.
ToSet(seq) == {seq[i] : i \in 1..Len(seq)}

\* An enumeration of a set in some order (the iteration order of a set).
RECURSIVE SetToSeq(_)
SetToSeq(S) ==
  IF S = {} THEN <<>>
  ELSE LET x == CHOOSE y \in S : TRUE IN <<x>> \o SetToSeq(S \ {x})

\* Every enumeration of a set: the iteration orders a set may have.
Orders(S) ==
  {f \in [1..Cardinality(S) -> S] : \A i, j \in 1..Cardinality(S) : f[i] = f[j] => i = j}

\* list.insert keeping an ascending list ascending.
RECURSIVE Insert(_, _)
Insert(x, seq) ==
  IF seq = <<>> THEN <<x>>
  ELSE IF StrLess(x, Head(seq)) THEN <<x>> \o seq
  ELSE <<Head(seq)>> \o Insert(x, Tail(seq))

\* sorted(seq) for a list of str: ascending by code point.
RECURSIVE sorted(_)
sorted(seq) ==
  IF seq = <<>> THEN <<>> ELSE Insert(Head(seq), sorted(Tail(seq)))


\* ------------------------------------------------------- regular expressions

(***************************************************************************)
(* The part of Python's re that ENV_PATTERNS uses, matched as re matches   *)
(* it: greedy, backtracking, leftmost match first.  A pattern is a list of *)
(* elements:                                                               *)
(*   Lit(s)       the characters of s, one after the other                 *)
(*   One(c)       [c]      one character of the class c                    *)
(*   Opt(c)       [c]?     one character of c, or nothing                  *)
(*   Cap(c, d)    the capture group: one character of c, then as many of   *)
(*                d as there are; a group of one or more of c is Cap(c, c) *)
(* A class is a set of characters and whether it is negated ([^...]).      *)
(***************************************************************************)
Class(chars, negated) == [chars |-> chars, negated |-> negated]
NoClass == Class({}, FALSE)

Lit(s)    == [op |-> "lit", s |-> s,    c |-> NoClass, d |-> NoClass]
One(c)    == [op |-> "one", s |-> <<>>, c |-> c,       d |-> NoClass]
Opt(c)    == [op |-> "opt", s |-> <<>>, c |-> c,       d |-> NoClass]
Cap(c, d) == [op |-> "cap", s |-> <<>>, c |-> c,       d |-> d]

\* Whether character ch is in class c under re.IGNORECASE.
InClass(ch, c) ==
  LET hit == \E x \in c.chars : Lower(x) = Lower(ch)
  IN  IF c.negated THEN ~hit ELSE hit

\* Whether text holds the literal s at position i, under re.IGNORECASE.
LitAt(s, text, i) ==
  /\ i + Len(s) - 1 <= Len(text)
  /\ \A k \in 1..Len(s) : Lower(text[i + k - 1]) = Lower(s[k])

\* The length of the longest run of characters of class d in text from i.
RECURSIVE RunLen(_, _, _)
RunLen(d, text, i) ==
  IF i <= Len(text) /\ InClass(text[i], d) THEN 1 + RunLen(d, text, i + 1) ELSE 0

(***************************************************************************)
(* The ways pattern pat, from its element k on, matches text at position   *)
(* i, in the order re tries them: a list of <<end, group>>, end the        *)
(* position after the match and group the text of the capture group.       *)
(***************************************************************************)
RECURSIVE MatchFrom(_, _, _, _, _)
RECURSIVE CapAlts(_, _, _, _, _)
MatchFrom(pat, k, text, i, group) ==
  IF k > Len(pat) THEN << <<i, group>> >>
  ELSE LET e == pat[k] IN
    CASE e.op = "lit" ->
           IF LitAt(e.s, text, i)
           THEN MatchFrom(pat, k + 1, text, i + Len(e.s), group)
           ELSE <<>>
      [] e.op = "one" ->
           IF i <= Len(text) /\ InClass(text[i], e.c)
           THEN MatchFrom(pat, k + 1, text, i + 1, group)
           ELSE <<>>
      [] e.op = "opt" ->
           (IF i <= Len(text) /\ InClass(text[i], e.c)
            THEN MatchFrom(pat, k + 1, text, i + 1, group)
            ELSE <<>>)
           \o MatchFrom(pat, k + 1, text, i, group)
      [] e.op = "cap" ->
           IF i <= Len(text) /\ InClass(text[i], e.c)
           THEN CapAlts(pat, k, text, i, 1 + RunLen(e.d, text, i + 1))
           ELSE <<>>

\* The capture group of element k taking n characters, then n - 1, ... 1.
CapAlts(pat, k, text, i, n) ==
  IF n < 1 THEN <<>>
  ELSE MatchFrom(pat, k + 1, text, i + n, SubSeq(text, i, i + n - 1))
       \o CapAlts(pat, k, text, i, n - 1)

\* re.findall(pattern, text, re.IGNORECASE) for a pattern with one group: the
\* group of every match, scanning left to right, matches not overlapping.
RECURSIVE FindAllFrom(_, _, _)
FindAllFrom(pat, text, pos) ==
  IF pos > Len(text) THEN <<>>
  ELSE LET ways == MatchFrom(pat, 1, text, pos, <<>>) IN
       IF ways = <<>> THEN FindAllFrom(pat, text, pos + 1)
       ELSE <<ways[1][2]>> \o FindAllFrom(pat, text, ways[1][1])

findall(pat, text) == FindAllFrom(pat, text, 1)

\* ------------------------------------------------------------ the patterns

Quote      == Class({"\"", "'"}, FALSE)       \* ["\']
NotQuote   == Class({"\"", "'"}, TRUE)        \* [^"\']
Upper      == {Chr(n) : n \in 65..90}         \* A-Z
Digit      == {Chr(n) : n \in 48..57}         \* 0-9
IdentStart == Class(Upper \cup {"_"}, FALSE)            \* [A-Z_]
IdentRest  == Class(Upper \cup Digit \cup {"_"}, FALSE) \* [A-Z0-9_]

\* os\.getenv\(["\']([^"\']+)["\']\)
GetenvPattern ==
  << Lit(<<"o", "s", ".", "g", "e", "t", "e", "n", "v", "(">>),
     One(Quote), Cap(NotQuote, NotQuote), One(Quote), Lit(<<")">>) >>

\* os\.environ\[?["\']([^"\']+)["\']\]?
EnvironPattern ==
  << Lit(<<"o", "s", ".", "e", "n", "v", "i", "r", "o", "n">>),
     Opt(Class({"["}, FALSE)), One(Quote), Cap(NotQuote, NotQuote), One(Quote),
     Opt(Class({"]"}, FALSE)) >>

\* A faulty shell pattern, whose group takes the braces: \$([A-Z_{][A-Z0-9_}]*)
ShellPatternBraces ==
  << Lit(<<"$">>),
     Cap(Class(Upper \cup {"_", "{"}, FALSE),
         Class(Upper \cup Digit \cup {"_", "}"}, FALSE)) >>

\* \$\{?([A-Z_][A-Z0-9_]*)\}?
ShellPattern ==
  << Lit(<<"$">>), Opt(Class({"{"}, FALSE)), Cap(IdentStart, IdentRest),
     Opt(Class({"}"}, FALSE)) >>

\* process\.env\.([A-Z_][A-Z0-9_]*)
ProcessEnvPattern ==
  << Lit(<<"p", "r", "o", "c", "e", "s", "s", ".", "e", "n", "v", ".">>),
     Cap(IdentStart, IdentRest) >>

ENV_PATTERNS == <<GetenvPattern, EnvironPattern, ShellPattern, ProcessEnvPattern>>

\* ------------------------------------------------------------------ paths

\* str.rfind(ch): the last index of ch in s counted from 0, or -1.
rfind(s, ch) ==
  IF \E i \in 1..Len(s) : s[i] = ch
  THEN (CHOOSE i \in 1..Len(s) : s[i] = ch /\ \A j \in (i + 1)..Len(s) : s[j] # ch) - 1
  ELSE -1

\* PurePath.name: what follows the last separator.
name(path) == SubSeq(path, rfind(path, "/") + 2, Len(path))

\* PurePath.suffix: the name from its last dot, unless the dot starts or ends it.
suffix(path) ==
  LET nm == name(path)
      i  == rfind(nm, ".")
  IN  IF 0 < i /\ i < Len(nm) - 1 THEN SubSeq(nm, i + 1, Len(nm)) ELSE <<>>

\* str(target_dir / rel): the path rglob yields for the entry rel of target_dir.
joinpath(target_dir, rel) == target_dir \o <<"/">> \o rel

\* str(filepath.relative_to(target_dir)).
relative_to(filepath, target_dir) ==
  SubSeq(filepath, Len(target_dir) + 2, Len(filepath))

\* PurePath.parts: the components of a path.
RECURSIVE parts(_)
parts(path) ==
  IF rfind(path, "/") < 0 THEN {path}
  ELSE {name(path)} \cup parts(SubSeq(path, 1, rfind(path, "/")))

\* The directories a relative path lies in, as relative paths.
parents(rel) ==
  {SubSeq(rel, 1, i - 1) : i \in {j \in 1..Len(rel) : rel[j] = "/"}}

\* skip_dirs
skip_dirs ==
  { <<"_", "_", "p", "y", "c", "a", "c", "h", "e", "_", "_">>,
    <<".", "g", "i", "t">>,
    <<"n", "o", "d", "e", "_", "m", "o", "d", "u", "l", "e", "s">>,
    <<"v", "e", "n", "v">>,
    <<".", "v", "e", "n", "v">>,
    <<"e", "n", "v">> }

\* The extensions of line 56.
extensions ==
  { <<".", "p", "y">>, <<".", "j", "s">>, <<".", "t", "s">>, <<".", "s", "h">>,
    <<".", "e", "n", "v">>, <<".", "y", "m", "l">>,
    <<".", "y", "a", "m", "l">> }

\* any(skip in str(filepath) for skip in skip_dirs)
excluded(filepath) == \E skip \in skip_dirs : Contains(filepath, skip)

\* ------------------------------------------------------------ the file scan

\* bytes.decode('utf-8', errors='ignore'), for ASCII and invalid bytes: the
\* bytes that are no part of a UTF-8 sequence are dropped.
decode(bytes) == SelectSeq(bytes, LAMBDA b : Ord(b) < 128)

\* found_vars after the loop over ENV_PATTERNS: set.update of every findall.
scan_content(content) ==
  UNION {ToSet(findall(ENV_PATTERNS[k], content)) : k \in 1..Len(ENV_PATTERNS)}

(***************************************************************************)
(* find_env_vars_in_file(filepath), for the file f = [bytes, read]: read   *)
(* is what open() and f.read() do, "ok" or the exception they raise.       *)
(* PermissionError is caught; UnicodeDecodeError cannot be raised under    *)
(* errors='ignore'; any other OSError leaves the function.                 *)
(***************************************************************************)
find_env_vars_in_file(f) ==
  CASE f.read = "PermissionError" -> [raised |-> FALSE, vars |-> {}]
    [] f.read = "OSError"         -> [raised |-> TRUE,  vars |-> {}]
    [] OTHER -> [raised |-> FALSE, vars |-> scan_content(decode(f.bytes))]

\* -------------------------------------------------------------- the inputs

\* The most entries a directory tree of the model holds.
MaxFiles == 3

\* How many times the program is run on the same tree and environment.
Runs == 2

\* The names the files of the model refer to.
FOO == <<"F", "O", "O">>
BAR == <<"B", "A", "R">>
foo == <<"f", "o", "o">>

File(rel, bytes, read) == [rel |-> rel, kind |-> "file", bytes |-> bytes, read |-> read]
Dir(rel)               == [rel |-> rel, kind |-> "dir",  bytes |-> <<>>,  read |-> "ok"]

\* The entries a tree is drawn from: a path below the target directory, and
\* for a file its bytes and what reading it does.
Entries ==
  { File(<<"a", ".", "p", "y">>,
         <<"o", "s", ".", "g", "e", "t", "e", "n", "v", "(", "\"", "F", "O", "O", "\"", ")">>, "ok"),
    File(<<"b", ".", "p", "y">>,
         <<"o", "s", ".", "e", "n", "v", "i", "r", "o", "n", ".", "g", "e", "t", "(", "'", "B", "A", "R", "'", ")">>, "ok"),
    File(<<"s", "u", "b", "/", "r", "u", "n", ".", "s", "h">>,
         <<"$", "{", "B", "A", "R", "}", " ", "$", "B", "A", "R", " ", "$", "f", "o", "o">>, "ok"),
    File(<<"n", "o", "d", "e", "_", "m", "o", "d", "u", "l", "e", "s", "/", "x", ".", "j", "s">>,
         <<"p", "r", "o", "c", "e", "s", "s", ".", "e", "n", "v", ".", "F", "O", "O">>, "ok"),
    File(<<"e", "n", "v", "i", "r", "o", "n", "m", "e", "n", "t", ".", "p", "y">>,
         <<"o", "s", ".", "e", "n", "v", "i", "r", "o", "n", "[", "\"", "F", "O", "O", "\"", "]">>, "ok"),
    File(<<"p", "r", "o", "d", ".", "e", "n", "v">>,
         <<"K", "=", "$", "B", "A", "R">>, "ok"),
    File(<<".", "e", "n", "v">>,
         <<"K", "=", "$", "F", "O", "O">>, "ok"),
    File(<<"b", "i", "n", ".", "p", "y">>,
         <<xFF, "$", "F", "O", "O", xFF>>, "ok"),
    File(<<"l", "o", "c", "k", "e", "d", ".", "s", "h">>,
         <<"$", "B", "A", "R">>, "PermissionError"),
    File(<<"m", "e", "m", ".", "p", "y">>,
         <<"$", "F", "O", "O">>, "OSError"),
    File(<<"n", "o", "t", "e", "s", ".", "t", "x", "t">>,
         <<"$", "F", "O", "O">>, "ok"),
    Dir(<<"c", "o", "n", "f", ".", "y", "m", "l">>) }

\* The directory trees: some entries, no path twice.
Trees ==
  {t \in SUBSET Entries :
     /\ Cardinality(t) <= MaxFiles
     /\ \A e1, e2 \in t : e1.rel = e2.rel => e1 = e2}

\* The target directories the program is given.
Targets == {<<"p", "r", "o", "j">>, <<"m", "y", "e", "n", "v">>}

\* The environments: the names that are set.
Environs == SUBSET {FOO, BAR}

\* Path.rglob('*'): every entry below the target directory, the directories
\* the files lie in included.  Nothing when the target is no directory.
rglob(kind, tree) ==
  IF kind = "dir"
  THEN tree \cup {Dir(d) : d \in UNION {parents(e.rel) : e \in tree}}
  ELSE {}

\* find_env_vars_in_file for every file of the model, computed once.
found_in == [e \in Entries |-> find_env_vars_in_file(e)]

\* ---------------------------------------------------------------- the probes

\* The most references a probed file holds.
MaxRefs == 2

\* The idioms: a reference to an environment variable is an idiom, the quote
\* it writes the name in (where it quotes it), and the name.
Forms == {"getenv", "subscript", "accessor", "braced", "dollar", "process"}
Quoted == {"getenv", "subscript", "accessor"}
Refs ==
  {[form |-> f, quote |-> q, name |-> n] :
     f \in Quoted, q \in {"\"", "'"}, n \in {FOO, BAR}}
  \cup {[form |-> f, quote |-> "", name |-> n] :
          f \in Forms \ Quoted, n \in {FOO, BAR}}

\* What stands between two references.
Seps == {<<>>, <<" ">>}

\* The text of a reference.
RefText(r) ==
  CASE r.form = "getenv" ->
         <<"o", "s", ".", "g", "e", "t", "e", "n", "v", "(">> \o <<r.quote>> \o r.name \o <<r.quote, ")">>
    [] r.form = "subscript" ->
         <<"o", "s", ".", "e", "n", "v", "i", "r", "o", "n", "[">> \o <<r.quote>> \o r.name \o <<r.quote, "]">>
    [] r.form = "accessor" ->
         <<"o", "s", ".", "e", "n", "v", "i", "r", "o", "n", ".", "g", "e", "t", "(">> \o <<r.quote>> \o r.name \o <<r.quote, ")">>
    [] r.form = "braced"  -> <<"$", "{">> \o r.name \o <<"}">>
    [] r.form = "dollar"  -> <<"$">> \o r.name
    [] r.form = "process" -> <<"p", "r", "o", "c", "e", "s", "s", ".", "e", "n", "v", ".">> \o r.name

\* The probed files: one to MaxRefs references, something between each two.
Probes ==
  UNION {[refs : [1..n -> Refs], seps : [1..(n - 1) -> Seps]] : n \in 1..MaxRefs}

NoProbe == [refs |-> <<>>, seps |-> <<>>]

\* The bytes of a probed file.
RECURSIVE RenderFrom(_, _)
RenderFrom(p, i) ==
  IF i > Cardinality(DOMAIN p.refs) THEN <<>>
  ELSE RefText(p.refs[i])
       \o (IF i \in DOMAIN p.seps THEN p.seps[i] ELSE <<>>)
       \o RenderFrom(p, i + 1)

Render(p) == RenderFrom(p, 1)

\* ----------------------------------------------------------------- the state

VARIABLES
  argv,              \* sys.argv[1:]
  target_kind,       \* what the target path is: "missing", "file" or "dir"
  tree,              \* the entries below the target directory
  environ,           \* the keys of os.environ
  pc,                \* where main() is: "start", "scan", "done", "exited", "crashed"
  todo,              \* the entries rglob has yet to yield
  env_vars_by_file,  \* the dict, as its items in insertion order
  all_env_vars,      \* the set
  scanned,           \* the paths find_env_vars_in_file was called with
  set_vars,          \* the list of line 77
  missing,           \* the set of line 81
  stdout,            \* the lines printed
  exit_status,       \* the exit status of the process, -1 while it runs
  run,               \* which run of the program this is
  prev_stdout,       \* what the run before printed
  probe,             \* the references of a file find_env_vars_in_file is applied to on its own
  found_vars         \* and what it returned

vars ==
  << argv, target_kind, tree, environ, pc, todo, env_vars_by_file, all_env_vars,
     scanned, set_vars, missing, stdout, exit_status, run, prev_stdout, probe,
     found_vars >>

inputs == <<argv, target_kind, tree, environ>>

target_dir == argv[1]

\* A printed line: what it is, its text, and for the summary its two counts.
Line(kind, text, n, m) == [kind |-> kind, text |-> text, n |-> n, m |-> m]

\* What main() holds as it starts.
Fresh ==
  /\ pc = "start"
  /\ todo = {}
  /\ env_vars_by_file = <<>>
  /\ all_env_vars = {}
  /\ scanned = {}
  /\ set_vars = <<>>
  /\ missing = {}
  /\ stdout = <<>>
  /\ exit_status = -1

Init ==
  /\ \/ argv = <<>> /\ target_kind = "missing" /\ tree = {}
     \/ /\ argv \in {<<t>> : t \in Targets}
        /\ \/ target_kind \in {"missing", "file"} /\ tree = {}
           \/ target_kind = "dir" /\ tree \in Trees
  /\ environ \in Environs
  /\ Fresh
  /\ run = 1
  /\ prev_stdout = <<>>
  /\ probe = NoProbe
  /\ found_vars = {}

\* ---------------------------------------------------------------- main()

\* env_vars_by_file[key] = value: the value of a key the dict holds is
\* replaced where it stands; a new key goes last.
DictSet(items, key, value) ==
  IF \E i \in 1..Len(items) : items[i][1] = key
  THEN [i \in 1..Len(items) |-> IF items[i][1] = key THEN <<key, value>> ELSE items[i]]
  ELSE Append(items, <<key, value>>)

\* The keys of the dict.
Keys(items) == {items[i][1] : i \in 1..Len(items)}

\* A faulty all_env_vars.update(found): the set is replaced.
update_replaces(all, found) == found

\* all_env_vars.update(found)
update(all, found) == all \cup found

\* A faulty lookup, which ignores case.
in_environ_nocase(var, env) ==
  \E key \in env :
    /\ Len(key) = Len(var)
    /\ \A i \in 1..Len(var) : Lower(key[i]) = Lower(var[i])

\* var in os.environ
in_environ(var, env) == var \in env

\* if len(sys.argv) < 2: the usage, and exit status 1.
Usage ==
  /\ pc = "start"
  /\ Len(argv) < 1
  /\ stdout' = << Line("usage", <<>>, 0, 0), Line("example", <<>>, 0, 0) >>
  /\ exit_status' = 1
  /\ pc' = "exited"
  /\ UNCHANGED << inputs, todo, env_vars_by_file, all_env_vars, scanned, set_vars,
                  missing, run, prev_stdout, probe, found_vars >>

\* if not target_dir.exists(): the diagnostic, and exit status 1.
NotFound ==
  /\ pc = "start"
  /\ Len(argv) >= 1
  /\ target_kind = "missing"
  /\ stdout' = << Line("not_found", target_dir, 0, 0) >>
  /\ exit_status' = 1
  /\ pc' = "exited"
  /\ UNCHANGED << inputs, todo, env_vars_by_file, all_env_vars, scanned, set_vars,
                  missing, run, prev_stdout, probe, found_vars >>

\* Lines 48 to 54: the empty dict and set, and the traversal begins.
StartScan ==
  /\ pc = "start"
  /\ Len(argv) >= 1
  /\ target_kind # "missing"
  /\ env_vars_by_file' = <<>>
  /\ all_env_vars' = {}
  /\ todo' = rglob(target_kind, tree)
  /\ pc' = "scan"
  /\ UNCHANGED << inputs, scanned, set_vars, missing, stdout, exit_status, run,
                  prev_stdout, probe, found_vars >>

\* Whether the loop body calls find_env_vars_in_file for entry e (lines 55, 56).
passes_filters(e) ==
  LET filepath == joinpath(target_dir, e.rel) IN
  /\ e.kind = "file"
  /\ ~excluded(filepath)
  /\ suffix(filepath) \in extensions

\* One iteration of the loop of line 54, for the entry e that rglob yields
\* next: rglob yields the entries in an order of its own.
ScanEntry(e) ==
  /\ pc = "scan"
  /\ e \in todo
  /\ LET filepath == joinpath(target_dir, e.rel)
         result   == found_in[e]
     IN
     IF passes_filters(e)
     THEN /\ scanned' = scanned \cup {e.rel}
          /\ IF result.raised
             THEN \* the exception leaves main(): a traceback, exit status 1
                  /\ pc' = "crashed"
                  /\ exit_status' = 1
                  /\ UNCHANGED <<todo, env_vars_by_file, all_env_vars>>
             ELSE /\ IF result.vars # {}
                     THEN /\ env_vars_by_file' =
                               DictSet(env_vars_by_file,
                                       relative_to(filepath, target_dir),
                                       sorted(SetToSeq(result.vars)))
                          /\ all_env_vars' = update(all_env_vars, result.vars)
                     ELSE UNCHANGED <<env_vars_by_file, all_env_vars>>
                  /\ todo' = todo \ {e}
                  /\ UNCHANGED <<pc, exit_status>>
     ELSE /\ todo' = todo \ {e}
          /\ UNCHANGED <<scanned, env_vars_by_file, all_env_vars, pc, exit_status>>
  /\ UNCHANGED << inputs, set_vars, missing, stdout, run, prev_stdout, probe,
                  found_vars >>

\* The loop of line 54 takes its next entry.
Scan == \E e \in todo : ScanEntry(e)

\* ------------------------------------------------------------- the report

\* A faulty sorted(env_vars_by_file.items()): the items in insertion order.
sorted_items_unsorted(items) == items

RECURSIVE InsertItem(_, _)
InsertItem(x, items) ==
  IF items = <<>> THEN <<x>>
  ELSE IF StrLess(x[1], Head(items)[1]) THEN <<x>> \o items
  ELSE <<Head(items)>> \o InsertItem(x, Tail(items))

RECURSIVE SortItems(_)
SortItems(items) ==
  IF items = <<>> THEN <<>> ELSE InsertItem(Head(items), SortItems(Tail(items)))

\* sorted(env_vars_by_file.items()): the keys differ, so the keys decide.
sorted_items(items) == SortItems(items)

\* The lines of kind `kind` for the names of a list, in its order.
Lines(kind, list) == [i \in 1..Len(list) |-> Line(kind, list[i], 0, 0)]

\* Lines 66 to 69, for the items in the order given.
RECURSIVE file_sections(_)
file_sections(items) ==
  IF items = <<>> THEN <<>>
  ELSE << Line("file", Head(items)[1], 0, 0) >>
       \o Lines("bullet", Head(items)[2])
       \o file_sections(Tail(items))

\* A faulty summary, which counts a variable once for every file it is in.
summary_counts_references(all, items) ==
  LET RECURSIVE Total(_)
      Total(its) == IF its = <<>> THEN 0 ELSE Len(Head(its)[2]) + Total(Tail(its))
  IN  Line("summary", <<>>, Total(items), Len(items))

\* Line 63: len(all_env_vars) and len(env_vars_by_file).
summary(all, items) == Line("summary", <<>>, Cardinality(all), Len(items))

\* A faulty test of line 82, which prints the section whatever missing holds.
prints_missing_always(miss) == TRUE

\* if missing:
prints_missing(miss) == miss # {}

\* Lines 63 to 85, with set_vars the list line 77 built.
report(all, items, set_list, miss) ==
  << summary(all, items), Line("rule", <<>>, 0, 0) >>
  \o file_sections(sorted_items(items))
  \o << Line("all_header", <<>>, 0, 0) >>
  \o Lines("var", sorted(SetToSeq(all)))
  \o << Line("set_header", <<>>, 0, 0) >>
  \o Lines("set", sorted(set_list))
  \o (IF prints_missing(miss)
      THEN << Line("missing_header", <<>>, 0, 0) >>
           \o Lines("missing", sorted(SetToSeq(miss)))
      ELSE <<>>)

\* A function on 1..n as a list.
RECURSIVE AsList(_, _)
AsList(f, n) == IF n = 0 THEN <<>> ELSE Append(AsList(f, n - 1), f[n])

\* The loop is over: lines 63 to 85, and main() returns.  The comprehension
\* of line 77 goes through all_env_vars in the order the set iterates in.
Report ==
  /\ pc = "scan"
  /\ todo = {}
  /\ \E order \in Orders({var \in all_env_vars : in_environ(var, environ)}) :
       LET list == AsList(order, Len(order)) IN
       /\ set_vars' = list
       /\ missing' = all_env_vars \ ToSet(list)
       /\ stdout' = report(all_env_vars, env_vars_by_file, list,
                           all_env_vars \ ToSet(list))
  /\ exit_status' = 0
  /\ pc' = "done"
  /\ UNCHANGED << inputs, todo, env_vars_by_file, all_env_vars, scanned, run,
                  prev_stdout, probe, found_vars >>

\* The process is over.
Terminated == pc \in {"done", "exited", "crashed"}

\* The program is run again, the tree and the environment as they were.
Rerun ==
  /\ Terminated
  /\ run < Runs
  /\ run' = run + 1
  /\ prev_stdout' = stdout
  /\ pc' = "start"
  /\ todo' = {}
  /\ env_vars_by_file' = <<>>
  /\ all_env_vars' = {}
  /\ scanned' = {}
  /\ set_vars' = <<>>
  /\ missing' = {}
  /\ stdout' = <<>>
  /\ exit_status' = -1
  /\ UNCHANGED << inputs, probe, found_vars >>

Next ==
  \/ Usage
  \/ NotFound
  \/ StartScan
  \/ Scan
  \/ Report
  \/ Rerun

Spec == Init /\ [][Next]_vars

\* ------------------------------------------- find_env_vars_in_file, alone

\* find_env_vars_in_file is about to be called with a file that holds the
\* references of probe.
InitFind ==
  /\ probe \in Probes
  /\ found_vars = {}
  /\ pc = "probe"
  /\ argv = <<>> /\ target_kind = "missing" /\ tree = {} /\ environ = {}
  /\ todo = {}
  /\ env_vars_by_file = <<>>
  /\ all_env_vars = {}
  /\ scanned = {}
  /\ set_vars = <<>>
  /\ missing = {}
  /\ stdout = <<>>
  /\ exit_status = -1
  /\ run = 1
  /\ prev_stdout = <<>>

\* The call returns.
Find ==
  /\ pc = "probe"
  /\ found_vars' = find_env_vars_in_file(File(<<>>, Render(probe), "ok")).vars
  /\ pc' = "probed"
  /\ UNCHANGED << inputs, todo, env_vars_by_file, all_env_vars, scanned, set_vars,
                  missing, stdout, exit_status, run, prev_stdout, probe >>

NextFind == Find

SpecFind == InitFind /\ [][NextFind]_vars

\* ------------------------------------------------------------ the claims

\* The lists the dict holds, as one set.
ListedVars == UNION {ToSet(env_vars_by_file[i][2]) : i \in 1..Len(env_vars_by_file)}

\* Whether a file holds a byte that is no part of a UTF-8 sequence.
Undecodable(bytes) == \E i \in 1..Len(bytes) : Ord(bytes[i]) >= 128

\* The files of the tree by the rules as the specification words them: a
\* regular file, no component of its path an entry of skip_dirs, its
\* extension in the list.
CandidatesByComponent ==
  {e \in tree :
     /\ e.kind = "file"
     /\ parts(joinpath(target_dir, e.rel)) \cap skip_dirs = {}
     /\ suffix(e.rel) \in extensions}

\* C1: after the scan loop the keys of the per-file mapping are exactly the
\* regular files that have no path component in skip_dirs, an extension of
\* the allow-list and a non-empty match set.
C1_KeysAreTheCandidatesWithMatches ==
  pc = "done" =>
    Keys(env_vars_by_file) =
      {e.rel : e \in {x \in CandidatesByComponent : found_in[x].vars # {}}}

\* C2: a failure to read a candidate file never aborts the run: the file
\* yields an empty match set, every other candidate is scanned and the report
\* is printed; the run stops early only for a missing argument or target.
C2_ReadFailureNeverAborts ==
  /\ pc # "crashed"
  /\ Terminated /\ Len(argv) >= 1 /\ target_kind # "missing" => pc = "done"
  /\ pc = "done" =>
       \A e \in tree :
         e.rel \in scanned /\ (e.read # "ok" \/ Undecodable(e.bytes))
           => e.rel \notin Keys(env_vars_by_file)

\* C3: with no argument, or a target that does not exist, main() prints a
\* diagnostic and exits with status 1, having scanned no file and printed no
\* part of the report; every other run ends with exit status 0.
C3_ExitStatus ==
  Terminated =>
    IF Len(argv) < 1 \/ target_kind = "missing"
    THEN /\ exit_status = 1
         /\ scanned = {}
         /\ stdout # <<>>
         /\ \A i \in 1..Len(stdout) : stdout[i].kind \in {"usage", "example", "not_found"}
    ELSE exit_status = 0

\* C4: after every iteration of the scan loop, and at report time, the global
\* set is the union of the lists of the per-file mapping.
C4_GlobalSetIsUnionOfLists ==
  pc \in {"scan", "done", "crashed"} => all_env_vars = ListedVars

C4_Witness ==
  /\ pc = "scan"
  /\ todo # {}
  /\ Len(env_vars_by_file) >= 2
  /\ env_vars_by_file[1][2] # env_vars_by_file[2][2]

\* C5: at report time set_vars and missing partition the global set, and a
\* name is in set_vars exactly when that very string is a key of os.environ.
C5_SetAndMissingPartition ==
  pc = "done" =>
    /\ ToSet(set_vars) \cap missing = {}
    /\ ToSet(set_vars) \cup missing = all_env_vars
    /\ \A var \in all_env_vars : var \in ToSet(set_vars) <=> var \in environ

C5_Witness ==
  /\ pc = "done"
  /\ set_vars # <<>>
  /\ foo \in missing
  /\ FOO \in environ

\* C6: a second run over the same tree and environment prints what the first
\* run printed, whatever order rglob and the sets iterate in.
C6_RunsPrintTheSame ==
  Terminated /\ run > 1 => stdout = prev_stdout

C6_Witness ==
  /\ pc = "done"
  /\ run > 1
  /\ env_vars_by_file # SortItems(env_vars_by_file)
  /\ set_vars # sorted(set_vars)
  /\ stdout = prev_stdout

\* The place of a kind of line in the report.
KindRank(kind) ==
  CASE kind = "summary"        -> 1
    [] kind = "rule"           -> 2
    [] kind = "file"           -> 3
    [] kind = "bullet"         -> 3
    [] kind = "all_header"     -> 4
    [] kind = "var"            -> 5
    [] kind = "set_header"     -> 6
    [] kind = "set"            -> 7
    [] kind = "missing_header" -> 8
    [] kind = "missing"        -> 9
    [] OTHER                   -> 0

\* The positions of the lines of a kind, and their texts.
At(kind) == {i \in 1..Len(stdout) : stdout[i].kind = kind}
TextsOf(kind) == {stdout[i].text : i \in At(kind)}

\* The lines of a kind stand in strictly ascending order.
Ascending(kind) ==
  \A i, j \in At(kind) : i < j => StrLess(stdout[i].text, stdout[j].text)

\* The bullets that follow the file line at position i, in order.
RECURSIVE BulletsAfter(_)
BulletsAfter(i) ==
  IF i + 1 <= Len(stdout) /\ stdout[i + 1].kind = "bullet"
  THEN <<stdout[i + 1].text>> \o BulletsAfter(i + 1)
  ELSE <<>>

\* A list of names in strictly ascending order.
IsAscending(list) ==
  \A i, j \in 1..Len(list) : i < j => StrLess(list[i], list[j])

\* C7: the report is the summary, then the files in ascending order of path,
\* each with its variables in ascending order, then all variables, then the
\* set ones, then the missing ones, each list ascending; the missing section
\* and its header are printed exactly when a variable is missing.
C7_ReportOrder ==
  pc = "done" =>
    /\ Len(stdout) >= 4
    /\ stdout[1].kind = "summary"
    /\ stdout[2].kind = "rule"
    /\ stdout[3].kind # "bullet"
    /\ \A i \in 1..Len(stdout) : KindRank(stdout[i].kind) > 0
    /\ \A i \in 1..(Len(stdout) - 1) :
         KindRank(stdout[i].kind) <= KindRank(stdout[i + 1].kind)
    /\ Cardinality(At("summary")) = 1
    /\ Cardinality(At("rule")) = 1
    /\ Cardinality(At("all_header")) = 1
    /\ Cardinality(At("set_header")) = 1
    /\ Cardinality(At("missing_header")) <= 1
    /\ Ascending("file")
    /\ Ascending("var")
    /\ Ascending("set")
    /\ Ascending("missing")
    /\ TextsOf("file") = Keys(env_vars_by_file)
    /\ \A i \in At("file") :
         /\ IsAscending(BulletsAfter(i))
         /\ \E k \in 1..Len(env_vars_by_file) :
              /\ env_vars_by_file[k][1] = stdout[i].text
              /\ ToSet(env_vars_by_file[k][2]) = ToSet(BulletsAfter(i))
    /\ TextsOf("var") = all_env_vars
    /\ TextsOf("set") = all_env_vars \cap environ
    /\ TextsOf("missing") = all_env_vars \ environ
    /\ At("missing_header") # {} <=> all_env_vars \ environ # {}

C7_Witness ==
  /\ pc = "done"
  /\ Cardinality(At("file")) >= 2
  /\ Cardinality(At("set")) >= 2
  /\ Cardinality(At("missing")) >= 1
  /\ \E i \in At("file") : Len(BulletsAfter(i)) >= 2

\* The references of the probed file, and their names.
ProbeRefs == {probe.refs[i] : i \in DOMAIN probe.refs}
ProbeNames == {r.name : r \in ProbeRefs}

ScannedWithMatches == {e \in tree : e.rel \in scanned /\ found_in[e].vars # {}}

\* C9 as stated: the summary line, printed first, gives the number of unique
\* variables and the number of files scanned, the files the loop passed to
\* find_env_vars_in_file.
C9_SummaryCountsScannedFiles ==
  pc = "done" =>
    stdout[1] = Line("summary", <<>>, Cardinality(all_env_vars), Cardinality(scanned))

\* C9 as amended: the summary line, printed first, gives the number of unique
\* variables and the number of scanned files in which a variable was found.
C9_SummaryCountsFilesWithMatches ==
  pc = "done" =>
    stdout[1] = Line("summary", <<>>, Cardinality(all_env_vars),
                     Cardinality(ScannedWithMatches))

C9_Witness ==
  /\ pc = "done"
  /\ Cardinality(ScannedWithMatches) >= 2
  /\ Cardinality(scanned) > Cardinality(ScannedWithMatches)
  /\ Cardinality(all_env_vars) < Len(env_vars_by_file)

\* C10: a file that holds os.environ['VAR'] or os.environ.get('VAR'), in
\* either quote, has VAR in the set find_env_vars_in_file returns.
C10_MappingFormsAreFound ==
  pc = "probed" =>
    \A r \in ProbeRefs : r.form \in {"subscript", "accessor"} => r.name \in found_vars

=============================================================================
